---- MODULE Spec2Model ----
(***************************************************************************)
(* Model of linera-witty's guest memory layer (runtime/memory.rs) and of   *)
(* linera-service's storage selection (storage.rs).                        *)
(*                                                                         *)
(* A u32 is held exactly, as the pair <<hi, lo>> of its two 16-bit halves  *)
(* (value = hi * 2^16 + lo), because the model checker's integers are      *)
(* themselves 32-bit signed.  An i32 is the pair <<hi, lo>> with hi in     *)
(* -2^15 .. 2^15 - 1.  A "wide" number is a pair whose hi may exceed 16    *)
(* bits: the mathematically exact value of a sum or product.               *)
(***************************************************************************)
EXTENDS Integers, Sequences, FiniteSets, TLC

VARIABLES
    overflow_checks, \* build profile: TRUE = overflow checks on (dev), FALSE = off (release)
    gp_op,           \* GuestPointer method applied: "none", "after", "after_padding_for", "index"
    gp_self,         \* receiver GuestPointer(self.0)
    gp_T,            \* layout of the type parameter T: [size, align]
    gp_index,        \* the `index` argument of GuestPointer::index
    gp_ret,          \* outcome of the method
    cabi_realloc,    \* Memory.cabi_realloc: 0 = None, h > 0 = Some(function handle h)
    cabi_free,       \* Memory.cabi_free: 0 = None, h > 0 = Some(function handle h)
    mem,             \* the guest instance's linear memory, a sequence of bytes
    loaded,          \* per export name, how many load_function calls have succeeded
    m_last,          \* the last Memory operation: its arguments, result and the
                     \* load_function lookups and guest calls it made
    rocksdb,         \* the store at the RocksDB path: "absent" (no directory),
                     \* "created" (directory, no genesis state) or "genesis"
    dynamodb,        \* the DynamoDB table at each endpoint ("env", "localstack"):
                     \* "absent", "created" or "genesis"
    inits,           \* per persistent store, how often initialize_store was called
    s_last,          \* the last run_with_storage invocation
    fs_input,        \* the string given to StorageConfig::from_str, a sequence of characters
    fs_ret,          \* what from_str returned for it ("none" before the call)
    h_status,        \* per Memory handle of one instance: "unborn", "live" or "dropped"
    h_user,          \* who used the instance last: a handle, or 0 for its owner
    h_prev,          \* who used the instance before that
    h_uses           \* per party, how often it has used the instance

gpVars == <<overflow_checks, gp_op, gp_self, gp_T, gp_index, gp_ret>>
memVars == <<cabi_realloc, cabi_free, mem, loaded, m_last>>

stVars == <<rocksdb, dynamodb, inits, s_last>>

fsVars == <<fs_input, fs_ret>>

hVars == <<h_status, h_user, h_prev, h_uses>>

vars == <<gpVars, memVars, stVars, fsVars, hVars>>

-----------------------------------------------------------------------------
(* Bounds of the model *)

MaxLo == 5          \* low halves 0..MaxLo and 2^16-1-MaxLo..2^16-1 are sampled
MaxSize == 6        \* T::SIZE ranges over 0..MaxSize
MaxAlignLog == 3    \* ALIGNMENT ranges over 2^0 .. 2^MaxAlignLog
MaxIndex == 3       \* small element indices 0..MaxIndex
MemSize == 2        \* bytes of guest linear memory
MaxLoads == 2       \* successful load_function calls per name that are followed
MaxOutput == 1      \* the job's outputs range over 0..MaxOutput
MaxInits == 2       \* initialize_store calls per persistent store that are followed
MaxPieces == 4      \* pieces a from_str input string is put together from
MaxHandles == 3     \* Memory handles a client program creates for one instance
MaxUses == 2        \* uses of the instance by one party that are followed

-----------------------------------------------------------------------------
(* 32-bit integers as pairs of 16-bit halves *)

Limb == 2^16
Half == 2^15

\* The pair of a small natural number.
FromNat(n) == <<n \div Limb, n % Limb>>

\* Carry the low half into the high half.
Norm(h, l) == <<h + (l \div Limb), l % Limb>>

\* Exact sum and exact comparison of wide numbers.
WAdd(x, y) == Norm(x[1] + y[1], x[2] + y[2])
WLess(x, y) == x[1] < y[1] \/ (x[1] = y[1] /\ x[2] < y[2])

\* Does a wide number fit a u32; its value modulo 2^32.
FitsU32(x) == x[1] < Limb
WrapU32(x) == <<x[1] % Limb, x[2]>>

\* A wide number modulo a small positive m.
ModSmall(x, m) == (((x[1] % m) * (Limb % m)) + (x[2] % m)) % m

RECURSIVE BitAnd(_, _)
BitAnd(a, b) ==
    IF a = 0 \/ b = 0 THEN 0
    ELSE ((a % 2) * (b % 2)) + 2 * BitAnd(a \div 2, b \div 2)

U32Max == <<Limb - 1, Limb - 1>>
I32Max == <<Half - 1, Limb - 1>>
I32Min == <<-Half, 0>>

\* Outcomes of an arithmetic expression: a value, or a panic of the thread.
Val(x) == [tag |-> "value", ptr |-> x]
Panic == [tag |-> "panic", ptr |-> <<0, 0>>]

\* `a + b` on u32: exact when it fits; otherwise it panics under overflow
\* checks and wraps modulo 2^32 without them.
U32Add(a, b, checks) ==
    LET exact == WAdd(a, b)
    IN  IF FitsU32(exact) THEN Val(exact)
        ELSE IF checks THEN Panic ELSE Val(WrapU32(exact))

\* Exact a * k for a u32 a and a byte k (k < 2^8).
WMulByte(a, k) == Norm(a[1] * k, a[2] * k)

\* `a * b` on u32 by Horner's rule over the four bytes of b, most significant
\* first: <<overflowed, value modulo 2^32>>.
MulStep(acc, a, byte) ==
    LET shifted == Norm(acc[2][1] * 256, acc[2][2] * 256)
        sum == WAdd(shifted, WMulByte(a, byte))
    IN  <<acc[1] \/ ~FitsU32(sum), WrapU32(sum)>>

U32MulWide(a, b) ==
    LET s0 == <<FALSE, <<0, 0>>>>
        s1 == MulStep(s0, a, b[1] \div 256)
        s2 == MulStep(s1, a, b[1] % 256)
        s3 == MulStep(s2, a, b[2] \div 256)
    IN  MulStep(s3, a, b[2] % 256)

U32Mul(a, b, checks) ==
    LET p == U32MulWide(a, b)
    IN  IF ~p[1] THEN Val(p[2])
        ELSE IF checks THEN Panic ELSE Val(p[2])

\* `x as i32` and `x as u32`: reinterpretation of the same 32 bits.
AsI32(u) == <<IF u[1] >= Half THEN u[1] - Limb ELSE u[1], u[2]>>
AsU32(i) == <<i[1] % Limb, i[2]>>

\* Unary minus on i32: -i32::MIN overflows.
I32Neg(i, checks) ==
    LET exact == IF i[2] = 0 THEN <<-i[1], 0>> ELSE <<-i[1] - 1, Limb - i[2]>>
    IN  IF exact[1] < Half THEN Val(exact)
        ELSE IF checks THEN Panic ELSE Val(<<exact[1] - Limb, exact[2]>>)

\* `i - 1` on i32: i32::MIN - 1 overflows.
I32Dec(i, checks) ==
    LET exact == IF i[2] > 0 THEN <<i[1], i[2] - 1>> ELSE <<i[1] - 1, Limb - 1>>
    IN  IF exact[1] >= -Half THEN Val(exact)
        ELSE IF checks THEN Panic ELSE Val(<<exact[1] + Limb, exact[2]>>)

\* `a & b` on i32: bitwise on the two's complement patterns.
I32And(a, b) ==
    AsI32(<<BitAnd(a[1] % Limb, b[1] % Limb), BitAnd(a[2], b[2])>>)

\* i32::try_from(u32) / u32::try_from(i32): fail when out of range.
TryI32FromU32(u) == IF u[1] < Half THEN [ok |-> TRUE, v |-> u] ELSE [ok |-> FALSE, v |-> <<0, 0>>]
TryU32FromI32(i) == IF i[1] >= 0 THEN [ok |-> TRUE, v |-> i] ELSE [ok |-> FALSE, v |-> <<0, 0>>]

-----------------------------------------------------------------------------
(* GuestPointer *)

\* Layouts of the type parameter: T::SIZE and <T::Layout as Layout>::ALIGNMENT.
Alignments == {2^k : k \in 0..MaxAlignLog}
Layouts == [size : 0..MaxSize, align : Alignments]

LoSamples == (0..MaxLo) \cup ((Limb - 1 - MaxLo)..(Limb - 1))
HiSamples == {0, 1, Half - 1, Half, Limb - 1}
Addresses == {<<h, l>> : h \in HiSamples, l \in LoSamples}
Indices == {<<0, i>> : i \in 0..MaxIndex} \cup {<<Half, 0>>, U32Max}

\* Variant: the pointer moves on by the size rounded up to T's alignment.
GuestPointerAfterPadded(self, T, checks) ==
    U32Add(self, FromNat(((T.size + T.align - 1) \div T.align) * T.align), checks)

\* GuestPointer::after
GuestPointerAfter(self, T, checks) == U32Add(self, FromNat(T.size), checks)

\* GuestPointer::after_padding_for
GuestPointerAfterPaddingFor(self, T, checks) ==
    LET neg == I32Neg(AsI32(self), checks)
        mask == I32Dec(AsI32(FromNat(T.align)), checks)
    IN  IF neg.tag = "panic" \/ mask.tag = "panic" THEN Panic
        ELSE U32Add(self, AsU32(I32And(neg.ptr, mask.ptr)), checks)

\* Variant: elements are strided by T::SIZE, without padding.
GuestPointerIndexUnpadded(self, T, index, checks) ==
    LET offset == U32Mul(index, FromNat(T.size), checks)
    IN  IF offset.tag = "panic" THEN Panic
        ELSE U32Add(self, offset.ptr, checks)

\* GuestPointer::index
GuestPointerIndex(self, T, index, checks) ==
    LET element_size == GuestPointerAfterPaddingFor(FromNat(T.size), T, checks)
    IN  IF element_size.tag = "panic" THEN Panic
        ELSE LET offset == U32Mul(index, element_size.ptr, checks)
             IN  IF offset.tag = "panic" THEN Panic
                 ELSE U32Add(self, offset.ptr, checks)

GpInit ==
    /\ overflow_checks \in BOOLEAN
    /\ gp_op = "none"
    /\ gp_self \in Addresses
    /\ gp_T \in Layouts
    /\ gp_index \in Indices
    /\ gp_ret = Val(<<0, 0>>)

After ==
    /\ gp_op = "none"
    /\ gp_op' = "after"
    /\ gp_ret' = GuestPointerAfter(gp_self, gp_T, overflow_checks)
    /\ UNCHANGED <<overflow_checks, gp_self, gp_T, gp_index, memVars, stVars, fsVars, hVars>>

AfterPaddingFor ==
    /\ gp_op = "none"
    /\ gp_op' = "after_padding_for"
    /\ gp_ret' = GuestPointerAfterPaddingFor(gp_self, gp_T, overflow_checks)
    /\ UNCHANGED <<overflow_checks, gp_self, gp_T, gp_index, memVars, stVars, fsVars, hVars>>

Index ==
    /\ gp_op = "none"
    /\ gp_op' = "index"
    /\ gp_ret' = GuestPointerIndex(gp_self, gp_T, gp_index, overflow_checks)
    /\ UNCHANGED <<overflow_checks, gp_self, gp_T, gp_index, memVars, stVars, fsVars, hVars>>

GpNext == After \/ AfterPaddingFor \/ Index


-----------------------------------------------------------------------------
(* Memory: the handle on one guest instance *)

Bytes == {0, 1}
ByteSeqs == UNION {[1..n -> Bytes] : n \in 0..MemSize}

\* Results of the Memory operations: Ok(value) or Err(RuntimeError).
OkUnit == [tag |-> "Ok", err |-> "", ptr |-> <<0, 0>>, bytes |-> <<>>]
OkPtr(p) == [tag |-> "Ok", err |-> "", ptr |-> p, bytes |-> <<>>]
OkBytes(b) == [tag |-> "Ok", err |-> "", ptr |-> <<0, 0>>, bytes |-> b]
Err(e) == [tag |-> "Err", err |-> e, ptr |-> <<0, 0>>, bytes |-> <<>>]

\* RuntimeMemory::read of the engine: the bytes at location .. location + length,
\* or an out-of-bounds error when the range exceeds the memory.
RawRead(m, location, length) ==
    IF WLess(FromNat(Len(m)), WAdd(location, length))
    THEN Err("OutOfBounds")
    ELSE OkBytes([i \in 1..length[2] |-> m[location[2] + i]])

\* RuntimeMemory::write of the engine: copies the bytes to location; when the
\* range exceeds the memory it fails, having written some prefix (`partial`
\* bytes) of what fits.
RawWrite(m, location, bytes, partial) ==
    IF WLess(FromNat(Len(m)), WAdd(location, FromNat(Len(bytes))))
    THEN LET room == IF WLess(location, FromNat(Len(m))) THEN Len(m) - location[2] ELSE 0
             n == IF partial < room THEN partial ELSE room
         IN  [mem |-> [i \in 1..Len(m) |->
                          IF i > location[2] /\ i <= location[2] + n
                          THEN bytes[i - location[2]] ELSE m[i]],
              ret |-> Err("OutOfBounds")]
    ELSE [mem |-> [i \in 1..Len(m) |->
                      IF i > location[2] /\ i <= location[2] + Len(bytes)
                      THEN bytes[i - location[2]] ELSE m[i]],
          ret |-> OkUnit]

\* Variant: the location is not passed on.
MemoryReadFromStart(m, location, length) == RawRead(m, <<0, 0>>, length)

\* Memory::read
MemoryRead(m, location, length) == RawRead(m, location, length)

\* Memory::write
MemoryWrite(m, location, bytes, partial) == RawWrite(m, location, bytes, partial)

\* What instance.call gives back: the engine's error e when the guest traps,
\* or what the guest returned (an i32 for cabi_realloc).
Trap(e) == [trap |-> TRUE, ret |-> <<0, 0>>, err |-> e]
Returns(r) == [trap |-> FALSE, ret |-> r, err |-> ""]

\* The errors instance.call can end with.
TrapErrors == {"ExecutionFault", "OutOfFuel"}

\* One load_function(instance, name) call, and one instance.call(handle, args)
\* with what the guest did (`out`).
Lookup(name, found) ==
    [name |-> name, found |-> found,
     err |-> IF found THEN "" ELSE "FunctionNotFound"]
GuestCall(name, handle, args, out) ==
    [name |-> name, handle |-> handle, args |-> args, out |-> out]

\* The outcome of a handler: the slot afterwards, the result, and the lookups
\* and guest calls made.
Outcome(slot, ret, lookups, calls) ==
    [slot |-> slot, ret |-> ret, lookups |-> lookups, calls |-> calls]

\* Variant: an error of a call the handler makes is reported as AllocationFailed.
RaiseAsAllocationFailed(e) == Err("AllocationFailed")

\* The `?` after load_function(..) and instance.call(..): the callee's error
\* is what the handler returns.
Raise(e) == Err(e)

\* Variant: the guest is asked for `size` bytes aligned to `size`.
ReallocArgumentsAligned(size) == <<<<0, 0>>, <<0, 0>>, size, size>>

\* hlist![0, 0, 1, size]: old pointer, old size, alignment, new size.
ReallocArguments(size) == <<<<0, 0>>, <<0, 0>>, <<0, 1>>, size>>

\* Variant: the slot is filled whether or not the lookup succeeded.
LoadCabiReallocCachesFailure(slot, found, fresh) ==
    IF slot = 0
    THEN [slot |-> fresh, lookups |-> <<Lookup("cabi_realloc", found)>>, ok |-> found]
    ELSE [slot |-> slot, lookups |-> <<>>, ok |-> TRUE]

\* The lazy resolution at the head of allocate: load_function is called only
\* when the slot is None, and the slot is assigned only when it succeeds.
\* `found` is whether the instance resolves the export when asked, `fresh` the
\* handle load_function then returns.  `ok` is FALSE when `?` returns the error.
LoadCabiRealloc(slot, found, fresh) ==
    IF slot = 0
    THEN [slot |-> IF found THEN fresh ELSE slot,
          lookups |-> <<Lookup("cabi_realloc", found)>>, ok |-> found]
    ELSE [slot |-> slot, lookups |-> <<>>, ok |-> TRUE]

\* Variant: deallocate looks up and caches under the name of the other export.
LoadCabiFreeByReallocName(slot, found, fresh) ==
    IF slot = 0
    THEN [slot |-> IF found THEN fresh ELSE slot,
          lookups |-> <<Lookup("cabi_realloc", found)>>, ok |-> found]
    ELSE [slot |-> slot, lookups |-> <<>>, ok |-> TRUE]

\* Variant: the function is looked up on every call.
LoadCabiFreeAlways(slot, found, fresh) ==
    [slot |-> IF found THEN fresh ELSE slot,
     lookups |-> <<Lookup("cabi_free", found)>>, ok |-> found]

\* The lazy resolution at the head of deallocate.
LoadCabiFree(slot, found, fresh) ==
    IF slot = 0
    THEN [slot |-> IF found THEN fresh ELSE slot,
          lookups |-> <<Lookup("cabi_free", found)>>, ok |-> found]
    ELSE [slot |-> slot, lookups |-> <<>>, ok |-> TRUE]

\* Variant: `size as i32`, which cannot fail.
AllocationSizeCast(size) == [ok |-> TRUE, v |-> AsI32(size)]

\* i32::try_from(size) in allocate.
AllocationSize(size) == TryI32FromU32(size)

\* Variant: a returned address of 0 is taken for a failure too.
AllocationAddressNonNull(r) ==
    IF r[1] > 0 \/ (r[1] = 0 /\ r[2] > 0) THEN [ok |-> TRUE, v |-> r]
    ELSE [ok |-> FALSE, v |-> <<0, 0>>]

\* Variant: `allocation_address as u32`, which cannot fail.
AllocationAddressCast(r) == [ok |-> TRUE, v |-> AsU32(r)]

\* allocation_address.try_into() in allocate.
AllocationAddress(r) == TryU32FromI32(r)

\* Variant: `allocation.0 as i32`, which cannot fail.
FreeAddressCast(allocation) == [ok |-> TRUE, v |-> AsI32(allocation)]

\* allocation.0.try_into() in deallocate.
FreeAddress(allocation) == TryI32FromU32(allocation)

\* Memory::allocate.  `guest` is what cabi_realloc does when called.
MemoryAllocate(slot, size, found, fresh, guest) ==
    LET load == LoadCabiRealloc(slot, found, fresh)
        sz == AllocationSize(size)
        call == GuestCall("cabi_realloc", load.slot, ReallocArguments(sz.v), guest)
        address == AllocationAddress(guest.ret)
    IN  IF ~load.ok
        THEN Outcome(load.slot, Raise(load.lookups[1].err), load.lookups, <<>>)
        ELSE IF ~sz.ok
        THEN Outcome(load.slot, Err("AllocationTooLarge"), load.lookups, <<>>)
        ELSE IF guest.trap
        THEN Outcome(load.slot, Raise(guest.err), load.lookups, <<call>>)
        ELSE IF ~address.ok
        THEN Outcome(load.slot, Err("AllocationFailed"), load.lookups, <<call>>)
        ELSE Outcome(load.slot, OkPtr(address.v), load.lookups, <<call>>)

\* Memory::deallocate.  `guest` is what cabi_free does when called.
MemoryDeallocate(slot, allocation, found, fresh, guest) ==
    LET load == LoadCabiFree(slot, found, fresh)
        address == FreeAddress(allocation)
        call == GuestCall("cabi_free", load.slot, <<address.v>>, guest)
    IN  IF ~load.ok
        THEN Outcome(load.slot, Raise(load.lookups[1].err), load.lookups, <<>>)
        ELSE IF ~address.ok
        THEN Outcome(load.slot, Err("DeallocateInvalidAddress"), load.lookups, <<>>)
        ELSE IF guest.trap
        THEN Outcome(load.slot, Raise(guest.err), load.lookups, <<call>>)
        ELSE Outcome(load.slot, OkUnit, load.lookups, <<call>>)

\* Inputs
Locations == {<<0, k>> : k \in 0..MemSize} \cup {U32Max}
Lengths == {<<0, k>> : k \in 0..MemSize} \cup {U32Max}
SizeSamples == {<<0, 0>>, <<0, 16>>, I32Max, <<Half, 0>>, U32Max}
I32Samples == {I32Min, <<-1, Limb - 1>>, <<0, 0>>, <<0, 16>>, I32Max}
ReallocBehaviours == {Trap(e) : e \in TrapErrors} \cup {Returns(r) : r \in I32Samples}
FreeBehaviours == {Trap(e) : e \in TrapErrors} \cup {Returns(<<0, 0>>)}

Last(op, arg, len, bytes, ret, lookups, calls) ==
    [op |-> op, arg |-> arg, len |-> len, bytes |-> bytes, ret |-> ret,
     lookups |-> lookups, calls |-> calls]

\* How many lookups of a handler succeeded.
Found(lookups) == Cardinality({i \in DOMAIN lookups : lookups[i].found})

MemInit ==
    /\ cabi_realloc = 0
    /\ cabi_free = 0
    /\ mem = [i \in 1..MemSize |-> 0]
    /\ loaded = [cabi_realloc |-> 0, cabi_free |-> 0]
    /\ m_last = Last("new", <<0, 0>>, <<0, 0>>, <<>>, OkUnit, <<>>, <<>>)

Read(location, length) ==
    /\ m_last' = Last("read", location, length, <<>>,
                      MemoryRead(mem, location, length), <<>>, <<>>)
    /\ UNCHANGED <<cabi_realloc, cabi_free, mem, loaded, gpVars, stVars, fsVars, hVars>>

Write(location, bytes, partial) ==
    LET w == MemoryWrite(mem, location, bytes, partial)
    IN  /\ partial <= Len(bytes)
        /\ mem' = w.mem
        /\ m_last' = Last("write", location, FromNat(Len(bytes)), bytes, w.ret, <<>>, <<>>)
        /\ UNCHANGED <<cabi_realloc, cabi_free, loaded, gpVars, stVars, fsVars, hVars>>

Allocate(size, found, guest) ==
    LET o == MemoryAllocate(cabi_realloc, size, found, loaded.cabi_realloc + 1, guest)
    IN  /\ loaded.cabi_realloc + Found(o.lookups) <= MaxLoads
        /\ cabi_realloc' = o.slot
        /\ loaded' = [loaded EXCEPT !.cabi_realloc = @ + Found(o.lookups)]
        /\ m_last' = Last("allocate", size, <<0, 0>>, <<>>, o.ret, o.lookups, o.calls)
        /\ UNCHANGED <<cabi_free, mem, gpVars, stVars, fsVars, hVars>>

\* Variant: the handle remembers the address it freed last and refuses to
\* free it again.
DeallocateOnce(allocation, found, guest) ==
    LET o == MemoryDeallocate(cabi_free, allocation, found, loaded.cabi_free + 1, guest)
        again == /\ m_last.op = "deallocate"
                 /\ m_last.arg = allocation
                 /\ m_last.ret = OkUnit
        ret == IF again THEN Err("DeallocateInvalidAddress") ELSE o.ret
        calls == IF again THEN <<>> ELSE o.calls
    IN  /\ loaded.cabi_free + Found(o.lookups) <= MaxLoads
        /\ cabi_free' = o.slot
        /\ loaded' = [loaded EXCEPT !.cabi_free = @ + Found(o.lookups)]
        /\ m_last' = Last("deallocate", allocation, <<0, 0>>, <<>>, ret, o.lookups, calls)
        /\ UNCHANGED <<cabi_realloc, mem, gpVars, stVars, fsVars, hVars>>

Deallocate(allocation, found, guest) ==
    LET o == MemoryDeallocate(cabi_free, allocation, found, loaded.cabi_free + 1, guest)
    IN  /\ loaded.cabi_free + Found(o.lookups) <= MaxLoads
        /\ cabi_free' = o.slot
        /\ loaded' = [loaded EXCEPT !.cabi_free = @ + Found(o.lookups)]
        /\ m_last' = Last("deallocate", allocation, <<0, 0>>, <<>>, o.ret, o.lookups, o.calls)
        /\ UNCHANGED <<cabi_realloc, mem, gpVars, stVars, fsVars, hVars>>

MemNext ==
    \/ \E location \in Locations, length \in Lengths : Read(location, length)
    \/ \E location \in Locations, bytes \in ByteSeqs, partial \in 0..MemSize :
           Write(location, bytes, partial)
    \/ \E size \in SizeSamples, found \in BOOLEAN, guest \in ReallocBehaviours :
           Allocate(size, found, guest)
    \/ \E allocation \in SizeSamples, found \in BOOLEAN, guest \in FreeBehaviours :
           Deallocate(allocation, found, guest)


-----------------------------------------------------------------------------
(* StorageConfig::run_with_storage *)

Configs == {[kind |-> "Memory", use_localstack |-> FALSE],
            [kind |-> "Rocksdb", use_localstack |-> FALSE],
            [kind |-> "DynamoDb", use_localstack |-> FALSE],
            [kind |-> "DynamoDb", use_localstack |-> TRUE]}

SOk(v) == [tag |-> "Ok", out |-> v, err |-> ""]
SErr(e) == [tag |-> "Err", out |-> 0, err |-> e]
JobResults == {SOk(v) : v \in 0..MaxOutput} \cup {SErr("job")}

\* GenesisConfig::initialize_store: writes the genesis state, or fails.
InitializeStore(store, initOk) == IF initOk THEN "genesis" ELSE store

\* DynamoDbStoreClient::new / with_localstack: creates the table when there is
\* none and reports TableStatus::New, else TableStatus::Existing.
DynamoDbStoreClientNew(store) ==
    IF store = "absent" THEN [store |-> "created", status |-> "New"]
    ELSE [store |-> store, status |-> "Existing"]

\* The outcome of an invocation: the store afterwards, whether the invocation
\* took the store for newly created, whether initialize_store was called and
\* how it ended, whether the job ran, and the value returned.
Ran(store, is_new, init, ran, ret) ==
    [store |-> store, is_new |-> is_new, init |-> init, ran |-> ran, ret |-> ret]

\* The steps shared by the arms: initialize_store(...)? when asked to, then
\* job.run(client).
InitializeAndRun(store, initialize, initOk, jobRet) ==
    IF initialize
    THEN IF initOk
         THEN Ran(InitializeStore(store, TRUE), TRUE, "ok", TRUE, jobRet)
         ELSE Ran(InitializeStore(store, FALSE), TRUE, "failed", FALSE, SErr("initialize_store"))
    ELSE Ran(store, FALSE, "skipped", TRUE, jobRet)

\* Variant: initialize_store is called whether or not the store is new.
RunWithStorageAlwaysInitialises(config, store, mkdirOk, connectOk, initOk, jobRet) ==
    CASE config.kind = "Memory" ->
            InitializeAndRun("created", TRUE, initOk, jobRet)
      [] config.kind = "Rocksdb" ->
            LET is_dir == store # "absent"
            IN  IF ~is_dir /\ ~mkdirOk
                THEN Ran(store, FALSE, "skipped", FALSE, SErr("create_dir_all"))
                ELSE LET is_new_dir == ~is_dir
                         client == IF is_new_dir THEN "created" ELSE store
                     IN  InitializeAndRun(client, TRUE, initOk, jobRet)
      [] config.kind = "DynamoDb" ->
            IF ~connectOk
            THEN Ran(store, FALSE, "skipped", FALSE, SErr("dynamodb"))
            ELSE LET opened == DynamoDbStoreClientNew(store)
                 IN  InitializeAndRun(opened.store, TRUE, initOk, jobRet)

\* StorageConfig::run_with_storage.  `store` is the selected backend's store
\* as the invocation finds it; mkdirOk, connectOk, initOk and jobRet are the
\* outcomes of create_dir_all, of the DynamoDB client constructor, of
\* initialize_store and of the job, when the invocation gets to them.
RunWithStorage(config, store, mkdirOk, connectOk, initOk, jobRet) ==
    CASE config.kind = "Memory" ->
            InitializeAndRun("created", TRUE, initOk, jobRet)
      [] config.kind = "Rocksdb" ->
            LET is_dir == store # "absent"
            IN  IF ~is_dir /\ ~mkdirOk
                THEN Ran(store, FALSE, "skipped", FALSE, SErr("create_dir_all"))
                ELSE LET is_new_dir == ~is_dir
                         client == IF is_new_dir THEN "created" ELSE store
                     IN  InitializeAndRun(client, is_new_dir, initOk, jobRet)
      [] config.kind = "DynamoDb" ->
            IF ~connectOk
            THEN Ran(store, FALSE, "skipped", FALSE, SErr("dynamodb"))
            ELSE LET opened == DynamoDbStoreClientNew(store)
                 IN  InitializeAndRun(opened.store, opened.status = "New", initOk, jobRet)

Endpoint(config) == IF config.use_localstack THEN "localstack" ELSE "env"

\* The store the configuration selects, as it is now.
Selected(config) ==
    CASE config.kind = "Memory" -> "absent"
      [] config.kind = "Rocksdb" -> rocksdb
      [] config.kind = "DynamoDb" -> dynamodb[Endpoint(config)]

StInit ==
    /\ rocksdb \in {"absent", "genesis"}
    /\ dynamodb \in [{"env", "localstack"} -> {"absent", "genesis"}]
    /\ inits = [Rocksdb |-> 0, env |-> 0, localstack |-> 0]
    /\ s_last = [config |-> [kind |-> "none", use_localstack |-> FALSE],
                 before |-> "absent", mkdirOk |-> FALSE, connectOk |-> FALSE,
                 job |-> SOk(0), is_new |-> FALSE,
                 init |-> "skipped", ran |-> FALSE, ran_on |-> "absent",
                 ret |-> SOk(0)]

Invoke(config, mkdirOk, connectOk, initOk, jobRet) ==
    LET r == RunWithStorage(config, Selected(config), mkdirOk, connectOk, initOk, jobRet)
        key == IF config.kind = "Rocksdb" THEN "Rocksdb" ELSE Endpoint(config)
        called == IF r.init = "skipped" THEN 0 ELSE 1
    IN  /\ config.kind # "Memory" => inits[key] + called <= MaxInits
        /\ rocksdb' = IF config.kind = "Rocksdb" THEN r.store ELSE rocksdb
        /\ dynamodb' = IF config.kind = "DynamoDb"
                       THEN [dynamodb EXCEPT ![Endpoint(config)] = r.store]
                       ELSE dynamodb
        /\ inits' = IF config.kind = "Memory" THEN inits
                    ELSE [inits EXCEPT ![key] = @ + called]
        /\ s_last' = [config |-> config, before |-> Selected(config),
                      mkdirOk |-> mkdirOk, connectOk |-> connectOk,
                      job |-> jobRet, is_new |-> r.is_new,
                      init |-> r.init, ran |-> r.ran,
                      ran_on |-> IF r.ran THEN r.store ELSE "absent",
                      ret |-> r.ret]
        /\ UNCHANGED <<gpVars, memVars, fsVars, hVars>>

StNext ==
    \E config \in Configs, mkdirOk \in BOOLEAN, connectOk \in BOOLEAN,
       initOk \in BOOLEAN, jobRet \in JobResults :
        Invoke(config, mkdirOk, connectOk, initOk, jobRet)

-----------------------------------------------------------------------------
(* StorageConfig::from_str (linera-service/src/storage.rs), built with the *)
(* "rocksdb" and "aws" features.  A string is a sequence of characters.    *)

MEMORY == <<"m", "e", "m", "o", "r", "y">>
ROCKSDB == <<"r", "o", "c", "k", "s", "d", "b", ":">>
DYNAMO_DB == <<"d", "y", "n", "a", "m", "o", "d", "b", ":">>

ENV == <<"e", "n", "v">>
LOCALSTACK == <<"l", "o", "c", "a", "l", "s", "t", "a", "c", "k">>

\* The parsed configuration; a field that the variant lacks is empty.
ConfigMemory ==
    [kind |-> "Memory", path |-> <<>>, table |-> <<>>, use_localstack |-> FALSE]
ConfigRocksdb(path) ==
    [kind |-> "Rocksdb", path |-> path, table |-> <<>>, use_localstack |-> FALSE]
ConfigDynamoDb(table, use_localstack) ==
    [kind |-> "DynamoDb", path |-> <<>>, table |-> table,
     use_localstack |-> use_localstack]

FOk(config) == [tag |-> "Ok", config |-> config, err |-> ""]
FErr(e) == [tag |-> "Err", config |-> ConfigMemory, err |-> e]

\* str::starts_with in place of strip_prefix on the prefix without its ':'
\* (variant: the separator is not required, and stays in the rest).
StripPrefixLoose(s, prefix) ==
    LET name == SubSeq(prefix, 1, Len(prefix) - 1)
    IN  IF Len(s) >= Len(name) /\ SubSeq(s, 1, Len(name)) = name
        THEN [some |-> TRUE, rest |-> SubSeq(s, Len(name) + 1, Len(s))]
        ELSE [some |-> FALSE, rest |-> <<>>]

\* str::strip_prefix: Some(the rest) when the string starts with the prefix.
StripPrefix(s, prefix) ==
    IF Len(s) >= Len(prefix) /\ SubSeq(s, 1, Len(prefix)) = prefix
    THEN [some |-> TRUE, rest |-> SubSeq(s, Len(prefix) + 1, Len(s))]
    ELSE [some |-> FALSE, rest |-> <<>>]

\* s.splitn(2, ':'): the items the iterator yields, one when there is no
\* separator, else the part before the first separator and all that follows it.
Splitn2(s, sep) ==
    LET hits == {i \in 1..Len(s) : s[i] = sep}
    IN  IF hits = {} THEN <<s>>
        ELSE LET i == CHOOSE h \in hits : \A g \in hits : h <= g
             IN  <<SubSeq(s, 1, i - 1), SubSeq(s, i + 1, Len(s))>>

\* Characters a DynamoDB table name may hold, among those of the alphabet.
TableNameChars ==
    {"a", "b", "c", "d", "e", "k", "l", "m", "n", "o", "r", "s", "t", "y",
     "1", "_"}

\* TableName's FromStr: 3 to 255 characters, each a letter, a digit, '.', '-'
\* or '_'.
TableNameFromStr(s) ==
    /\ Len(s) >= 3
    /\ Len(s) <= 255
    /\ \A i \in 1..Len(s) : s[i] \in TableNameChars

\* match parts.next() { None | Some("env") => false, Some("localstack") =>
\* true, Some(unknown) => return Err(..) }
UseLocalstack(parts) ==
    IF Len(parts) < 2 \/ parts[2] = ENV THEN [ok |-> TRUE, v |-> FALSE]
    ELSE IF parts[2] = LOCALSTACK THEN [ok |-> TRUE, v |-> TRUE]
    ELSE [ok |-> FALSE, v |-> FALSE]

FromStr(input) ==
    LET rocks == StripPrefix(input, ROCKSDB)
        dynamo == StripPrefix(input, DYNAMO_DB)
        parts == Splitn2(dynamo.rest, ":")
        endpoint == UseLocalstack(parts)
    IN  IF input = MEMORY THEN FOk(ConfigMemory)
        ELSE IF rocks.some THEN FOk(ConfigRocksdb(rocks.rest))
        ELSE IF dynamo.some
        THEN IF Len(parts) = 0 THEN FErr("Missing DynamoDB table name")
             ELSE IF ~TableNameFromStr(parts[1]) THEN FErr("InvalidTableName")
             ELSE IF ~endpoint.ok THEN FErr("Invalid DynamoDB endpoint")
             ELSE FOk(ConfigDynamoDb(parts[1], endpoint.v))
        ELSE FErr("Incorrect storage description")

\* The pieces the input strings are put together from.
Pieces ==
    {MEMORY, ROCKSDB, DYNAMO_DB, SubSeq(ROCKSDB, 1, 7), SubSeq(DYNAMO_DB, 1, 8),
     <<":">>, ENV, LOCALSTACK, <<"_">>, <<"1">>, <<"t", "a", "b", "l", "e">>}

RECURSIVE Concat(_)
Concat(ps) == IF ps = <<>> THEN <<>> ELSE Head(ps) \o Concat(Tail(ps))

Inputs ==
    {Concat(ps) : ps \in UNION {[1..n -> Pieces] : n \in 0..MaxPieces}}

FsInit ==
    /\ fs_input \in Inputs
    /\ fs_ret = [tag |-> "none", config |-> ConfigMemory, err |-> ""]

Parse ==
    /\ fs_ret.tag = "none"
    /\ fs_ret' = FromStr(fs_input)
    /\ UNCHANGED <<fs_input, gpVars, memVars, stVars, hVars>>

FsNext == Parse

-----------------------------------------------------------------------------
(* Memory handles and the instance they borrow (runtime/memory.rs, struct  *)
(* Memory: `instance: &'runtime mut Instance`).  A client program creates  *)
(* handles, uses the instance through them, drops them, and may use the    *)
(* instance directly; the steps are those a program the compiler admits    *)
(* can take.                                                               *)

Handles == 1..MaxHandles

\* The party that is not a handle: the owner of the instance, using it directly.
Owner == 0

Live(status) == {h \in Handles : status[h] = "live"}

\* Variant: the handle holds a shared borrow, `&'runtime Instance`, which
\* other borrows may overlap.
BorrowShared(status) == TRUE

\* `&'runtime mut Instance`: the instance can be borrowed for a new handle
\* only while no other borrow of it is alive.
BorrowMut(status) == Live(status) = {}

\* The instance can be used directly only while it is not mutably borrowed.
DirectUse(status) == Live(status) = {}

HInit ==
    /\ h_status = [h \in Handles |-> "unborn"]
    /\ h_user = Owner
    /\ h_prev = Owner
    /\ h_uses = [p \in Handles \cup {Owner} |-> 0]

\* Memory { instance, .. } is built for handle h.
NewHandle(h) ==
    /\ h_status[h] = "unborn"
    /\ BorrowMut(h_status)
    /\ h_status' = [h_status EXCEPT ![h] = "live"]
    /\ UNCHANGED <<h_user, h_prev, h_uses, gpVars, memVars, stVars, fsVars>>

\* read, write, allocate or deallocate through handle h.
UseHandle(h) ==
    /\ h_status[h] = "live"
    /\ h_uses[h] < MaxUses
    /\ h_user' = h
    /\ h_prev' = h_user
    /\ h_uses' = [h_uses EXCEPT ![h] = @ + 1]
    /\ UNCHANGED <<h_status, gpVars, memVars, stVars, fsVars>>

\* The handle goes out of scope: its borrow ends.
DropHandle(h) ==
    /\ h_status[h] = "live"
    /\ h_status' = [h_status EXCEPT ![h] = "dropped"]
    /\ UNCHANGED <<h_user, h_prev, h_uses, gpVars, memVars, stVars, fsVars>>

\* The owner reads, writes or calls the instance without a handle.
UseDirectly ==
    /\ DirectUse(h_status)
    /\ h_uses[Owner] < MaxUses
    /\ h_user' = Owner
    /\ h_prev' = h_user
    /\ h_uses' = [h_uses EXCEPT ![Owner] = @ + 1]
    /\ UNCHANGED <<h_status, gpVars, memVars, stVars, fsVars>>

HNext ==
    \/ \E h \in Handles : NewHandle(h)
    \/ \E h \in Handles : UseHandle(h)
    \/ \E h \in Handles : DropHandle(h)
    \/ UseDirectly

-----------------------------------------------------------------------------
(* Specifications: each drives one part and leaves the others idle *)

GpIdle ==
    /\ overflow_checks = FALSE
    /\ gp_op = "idle"
    /\ gp_self = <<0, 0>>
    /\ gp_T = [size |-> 0, align |-> 1]
    /\ gp_index = <<0, 0>>
    /\ gp_ret = Val(<<0, 0>>)

MemIdle ==
    /\ cabi_realloc = 0
    /\ cabi_free = 0
    /\ mem = <<>>
    /\ loaded = [cabi_realloc |-> 0, cabi_free |-> 0]
    /\ m_last = Last("idle", <<0, 0>>, <<0, 0>>, <<>>, OkUnit, <<>>, <<>>)

StIdle ==
    /\ rocksdb = "absent"
    /\ dynamodb = [e \in {"env", "localstack"} |-> "absent"]
    /\ inits = [Rocksdb |-> 0, env |-> 0, localstack |-> 0]
    /\ s_last = [config |-> [kind |-> "idle", use_localstack |-> FALSE],
                 before |-> "absent", mkdirOk |-> FALSE, connectOk |-> FALSE,
                 job |-> SOk(0), is_new |-> FALSE,
                 init |-> "skipped", ran |-> FALSE, ran_on |-> "absent",
                 ret |-> SOk(0)]

FsIdle ==
    /\ fs_input = <<>>
    /\ fs_ret = [tag |-> "idle", config |-> ConfigMemory, err |-> ""]

HIdle ==
    /\ h_status = [h \in Handles |-> "idle"]
    /\ h_user = Owner
    /\ h_prev = Owner
    /\ h_uses = [p \in Handles \cup {Owner} |-> 0]

PointerInit == GpInit /\ MemIdle /\ StIdle /\ FsIdle /\ HIdle
MemoryInit == MemInit /\ GpIdle /\ StIdle /\ FsIdle /\ HIdle
StorageInit == StInit /\ GpIdle /\ MemIdle /\ FsIdle /\ HIdle
ConfigInit == FsInit /\ GpIdle /\ MemIdle /\ StIdle /\ HIdle
HandlesInit == HInit /\ GpIdle /\ MemIdle /\ StIdle /\ FsIdle

SpecPointer == PointerInit /\ [][GpNext]_vars

SpecMemory == MemoryInit /\ [][MemNext]_vars

SpecStorage == StorageInit /\ [][StNext]_vars

SpecConfig == ConfigInit /\ [][FsNext]_vars

SpecHandles == HandlesInit /\ [][HNext]_vars

-----------------------------------------------------------------------------
(* Address arithmetic as the specification states it, on exact numbers *)

\* The smallest p >= 0 with (a + p) mod align = 0.
PaddingFor(a, align) ==
    CHOOSE p \in 0..(align - 1) :
        /\ ModSmall(WAdd(a, <<0, p>>), align) = 0
        /\ \A q \in 0..(p - 1) : ModSmall(WAdd(a, <<0, q>>), align) # 0

\* size rounded up to the next multiple of align.
Stride(T) == CHOOSE s \in T.size..(T.size + T.align - 1) : s % T.align = 0

\* The exact results a + size, a + padding and base + i * stride.
ExactAfter(a, T) == WAdd(a, FromNat(T.size))
ExactAligned(a, T) == WAdd(a, <<0, PaddingFor(a, T.align)>>)
ExactProduct(i, T) == Norm(i[1] * Stride(T), i[2] * Stride(T))
ExactIndex(base, T, i) == WAdd(base, ExactProduct(i, T))

\* C1: whenever the aligned address fits in 32 bits, after_padding_for(a)
\* returns a + p, p the smallest padding that makes a + p a multiple of the
\* alignment (0 <= p < align), for every address a, a >= 2^31 included.
C1_AfterPaddingForAligns ==
    gp_op = "after_padding_for" =>
        (FitsU32(ExactAligned(gp_self, gp_T)) =>
            /\ gp_ret = Val(ExactAligned(gp_self, gp_T))
            /\ ModSmall(gp_ret.ptr, gp_T.align) = 0
            /\ WLess(gp_ret.ptr, WAdd(gp_self, <<0, gp_T.align>>)))

\* C2: address arithmetic never silently wraps: whenever the exact result of
\* after, after_padding_for or index (or the product index * stride) exceeds
\* 2^32 - 1, the operation fails with an AddressOverflow error.
C2_OverflowIsReported ==
    LET exact == CASE gp_op = "after" -> ExactAfter(gp_self, gp_T)
                   [] gp_op = "after_padding_for" -> ExactAligned(gp_self, gp_T)
                   [] gp_op = "index" -> ExactIndex(gp_self, gp_T, gp_index)
                   [] OTHER -> <<0, 0>>
    IN  ~FitsU32(exact) => gp_ret.tag = "AddressOverflow"

\* C3: whenever the result fits in 32 bits, index(base, i) is
\* base + i * stride, stride being size rounded up to a multiple of align;
\* index(base, 0) is base.
C3_IndexIsBasePlusStride ==
    gp_op = "index" =>
        /\ FitsU32(ExactIndex(gp_self, gp_T, gp_index)) =>
               gp_ret = Val(ExactIndex(gp_self, gp_T, gp_index))
        /\ gp_index = <<0, 0>> => gp_ret = Val(gp_self)
        /\ gp_T.size % gp_T.align = 0 => Stride(gp_T) = gp_T.size

\* An element of size 6 and alignment 4 occupies 8 bytes: index(1, 3) = 25.
C3_Witness ==
    /\ gp_op = "index"
    /\ gp_self = <<0, 1>>
    /\ gp_T = [size |-> 6, align |-> 4]
    /\ gp_index = <<0, 3>>
    /\ gp_ret = Val(<<0, 25>>)

-----------------------------------------------------------------------------
(* The memory handle's operations *)

\* The last operation found its function resolvable: the slot was already
\* Resolved (no lookup was made) or the lookup it made succeeded.
Resolvable == m_last.lookups = <<>> \/ m_last.lookups[1].found

\* A u32 above i32::MAX = 2^31 - 1.
AboveI32Max(u) == WLess(I32Max, u)

\* C4 as stated: allocate(size) with size > 2^31 - 1 fails with
\* AllocationTooLarge and issues no guest call, whatever the state of the
\* realloc-fn slot and whether or not the guest exports cabi_realloc.
C4_TooLargeAlways ==
    (m_last.op = "allocate" /\ AboveI32Max(m_last.arg)) =>
        /\ m_last.ret = Err("AllocationTooLarge")
        /\ m_last.calls = <<>>

\* C4 amended: allocate(size) with size > 2^31 - 1 issues no guest call; it
\* fails with AllocationTooLarge when realloc-fn is Resolved or resolves, and
\* with the function-not-found error when the slot is Unresolved and the
\* guest does not export cabi_realloc (resolution comes before the size check).
C4_TooLargeAfterResolution ==
    (m_last.op = "allocate" /\ AboveI32Max(m_last.arg)) =>
        /\ m_last.calls = <<>>
        /\ Resolvable => m_last.ret = Err("AllocationTooLarge")
        /\ ~Resolvable => m_last.ret = Err("FunctionNotFound")

\* allocate(2^32 - 1) on a handle whose realloc-fn is already Resolved.
C4_Witness ==
    /\ m_last.op = "allocate"
    /\ m_last.arg = U32Max
    /\ m_last.lookups = <<>>
    /\ cabi_realloc # 0
    /\ m_last.ret = Err("AllocationTooLarge")
    /\ m_last.calls = <<>>

\* What C5 asks of one operation, given the slot before and after it and the
\* name of its function: on an Unresolved slot load_function is called (once,
\* for that name); if it fails the operation returns function-not-found
\* without a guest call and the slot stays Unresolved; if it succeeds the
\* slot becomes Resolved and the operation goes on past the resolution.
RetriesResolution(before, after, name, last) ==
    before = 0 =>
        /\ Len(last.lookups) = 1
        /\ last.lookups[1].name = name
        /\ ~last.lookups[1].found =>
               /\ last.ret = Err("FunctionNotFound")
               /\ last.calls = <<>>
               /\ after = 0
        /\ last.lookups[1].found =>
               /\ after # 0
               /\ last.ret # Err("FunctionNotFound")
               /\ (~AboveI32Max(last.arg)) =>
                      (Len(last.calls) = 1 /\ last.calls[1].handle = after)

\* C5: a failed resolution is never cached: it leaves the slot Unresolved and
\* returns function-not-found without a guest call, and every allocate
\* (deallocate) on an Unresolved slot calls load_function again, going on
\* when it succeeds.
C5_FailedResolutionIsRetried ==
    [][ /\ m_last'.op = "allocate" =>
               RetriesResolution(cabi_realloc, cabi_realloc', "cabi_realloc", m_last')
        /\ m_last'.op = "deallocate" =>
               RetriesResolution(cabi_free, cabi_free', "cabi_free", m_last')
      ]_vars

\* An allocate whose load_function call failed: the slot is still Unresolved.
C5_Witness ==
    /\ m_last.op = "allocate"
    /\ m_last.lookups = <<Lookup("cabi_realloc", FALSE)>>
    /\ m_last.ret = Err("FunctionNotFound")
    /\ m_last.calls = <<>>
    /\ cabi_realloc = 0

\* What C6 asks of one step for one slot: a Resolved slot keeps its handle, no
\* load_function call is made for its name, and a guest call of its function
\* uses that handle.
KeepsHandle(before, after, name, last) ==
    before # 0 =>
        /\ after = before
        /\ \A i \in DOMAIN last.lookups : last.lookups[i].name # name
        /\ \A i \in DOMAIN last.calls :
               last.calls[i].name = name => last.calls[i].handle = before

\* C6: slots are monotone: once Resolved, a slot keeps the same handle through
\* every read, write, allocate and deallocate, failed ones included; later
\* guest calls use it and load_function is not called again for that name: at
\* most one load_function per name succeeds on a handle.
C6_SlotsAreMonotone ==
    /\ [](loaded.cabi_realloc <= 1 /\ loaded.cabi_free <= 1)
    /\ [][ /\ KeepsHandle(cabi_realloc, cabi_realloc', "cabi_realloc", m_last')
           /\ KeepsHandle(cabi_free, cabi_free', "cabi_free", m_last')
         ]_vars

\* A deallocate on a Resolved free-fn slot that ends in a guest fault: it made
\* no lookup, called the cached handle, and the slot is unchanged.
C6_Witness ==
    /\ m_last.op = "deallocate"
    /\ m_last.lookups = <<>>
    /\ m_last.ret = Err("ExecutionFault")
    /\ Len(m_last.calls) = 1
    /\ m_last.calls[1].handle = cabi_free
    /\ cabi_free # 0
    /\ loaded.cabi_free = 1

\* Two ranges of guest memory that share no byte.
Disjoint(loc1, len1, loc2, len2) ==
    \/ ~WLess(loc2, WAdd(loc1, len1))
    \/ ~WLess(loc1, WAdd(loc2, len2))

\* C8: a successful write(addr, bytes) followed by read(addr, len(bytes))
\* returns exactly bytes, and leaves what is read from any disjoint range
\* unchanged; read and write return what the raw memory interface returns
\* for the same address and length or bytes, and read changes nothing.
C8_ReadWriteDelegate ==
    /\ [](m_last.op = "read" => m_last.ret = RawRead(mem, m_last.arg, m_last.len))
    /\ [][ /\ (m_last'.op = "write" /\ m_last'.ret.tag = "Ok") =>
                  /\ MemoryRead(mem', m_last'.arg, m_last'.len) = OkBytes(m_last'.bytes)
                  /\ mem' = RawWrite(mem, m_last'.arg, m_last'.bytes, 0).mem
                  /\ \A loc \in Locations, len \in Lengths :
                         (/\ Disjoint(loc, len, m_last'.arg, m_last'.len)
                          /\ MemoryRead(mem, loc, len).tag = "Ok") =>
                             MemoryRead(mem', loc, len) = MemoryRead(mem, loc, len)
           /\ (m_last'.op = "write" /\ m_last'.ret.tag = "Err") =>
                  \E partial \in 0..Len(m_last'.bytes) :
                      /\ mem' = RawWrite(mem, m_last'.arg, m_last'.bytes, partial).mem
                      /\ m_last'.ret = RawWrite(mem, m_last'.arg, m_last'.bytes, partial).ret
           /\ m_last'.op = "read" => mem' = mem
         ]_vars

\* A read at address 1 of the byte a write put there.
C8_Witness ==
    /\ m_last.op = "read"
    /\ m_last.arg = <<0, 1>>
    /\ m_last.len = <<0, 1>>
    /\ mem[2] = 1
    /\ m_last.ret = OkBytes(<<1>>)

\* The guest call of the last operation returned (did not trap).
GuestReturned == Len(m_last.calls) = 1 /\ ~m_last.calls[1].out.trap

\* A negative i32.
Negative(i) == i[1] < 0

\* C9: allocate fails with AllocationFailed exactly when cabi_realloc returns
\* a negative i32; for every result r >= 0, r = 0 included, it succeeds and
\* returns the guest address r.
C9_AllocationFailedIffNegative ==
    m_last.op = "allocate" =>
        /\ m_last.ret = Err("AllocationFailed") <=>
               (GuestReturned /\ Negative(m_last.calls[1].out.ret))
        /\ (GuestReturned /\ ~Negative(m_last.calls[1].out.ret)) =>
               m_last.ret = OkPtr(m_last.calls[1].out.ret)

\* cabi_realloc returned 0 and allocate returned the guest address 0.
C9_Witness ==
    /\ m_last.op = "allocate"
    /\ GuestReturned
    /\ m_last.calls[1].out.ret = <<0, 0>>
    /\ m_last.ret = OkPtr(<<0, 0>>)

\* The second half of C10: an address <= 2^31 - 1 with free-fn resolvable is
\* passed to cabi_free, called exactly once.
FreesOnce ==
    (m_last.op = "deallocate" /\ ~AboveI32Max(m_last.arg) /\ Resolvable) =>
        /\ Len(m_last.calls) = 1
        /\ m_last.calls[1].name = "cabi_free"
        /\ m_last.calls[1].args = <<m_last.arg>>

\* C10 as stated: deallocate(address) with address > 2^31 - 1 fails with
\* DeallocateInvalidAddress and cabi_free is not invoked; an address
\* <= 2^31 - 1 with free-fn resolvable is passed to cabi_free exactly once.
C10_InvalidAddressAlways ==
    /\ (m_last.op = "deallocate" /\ AboveI32Max(m_last.arg)) =>
           /\ m_last.ret = Err("DeallocateInvalidAddress")
           /\ m_last.calls = <<>>
    /\ FreesOnce

\* C10 amended: deallocate(address) with address > 2^31 - 1 never invokes
\* cabi_free; it fails with DeallocateInvalidAddress when free-fn is Resolved
\* or resolves, and with the function-not-found error when the slot is
\* Unresolved and the guest does not export cabi_free.  An address
\* <= 2^31 - 1 with free-fn resolvable is passed to cabi_free exactly once.
C10_InvalidAddressAfterResolution ==
    /\ (m_last.op = "deallocate" /\ AboveI32Max(m_last.arg)) =>
           /\ m_last.calls = <<>>
           /\ Resolvable => m_last.ret = Err("DeallocateInvalidAddress")
           /\ ~Resolvable => m_last.ret = Err("FunctionNotFound")
    /\ FreesOnce

\* deallocate(2^31) after cabi_free resolved: refused without a guest call.
C10_Witness ==
    /\ m_last.op = "deallocate"
    /\ m_last.arg = <<Half, 0>>
    /\ Resolvable
    /\ m_last.ret = Err("DeallocateInvalidAddress")
    /\ m_last.calls = <<>>

-----------------------------------------------------------------------------
(* run_with_storage *)

\* Whether the last invocation found its store newly created: a Memory store
\* always is, a RocksDB store when there was no directory and the invocation
\* created it, a DynamoDB table when the client reported TableStatus::New.
FoundNew ==
    CASE s_last.config.kind = "Memory" -> TRUE
      [] s_last.config.kind = "Rocksdb" -> s_last.before = "absent" /\ s_last.mkdirOk
      [] s_last.config.kind = "DynamoDb" -> s_last.before = "absent" /\ s_last.connectOk
      [] OTHER -> FALSE

\* Whether the last invocation got a store at all.
Opened ==
    CASE s_last.config.kind = "Memory" -> TRUE
      [] s_last.config.kind = "Rocksdb" -> s_last.before # "absent" \/ s_last.mkdirOk
      [] s_last.config.kind = "DynamoDb" -> s_last.connectOk
      [] OTHER -> FALSE

\* C7: an invocation calls initialize_store exactly when it finds the store
\* newly created (Memory: always; RocksDB: no directory, and it creates it;
\* DynamoDB: table status New), an invocation that finds an existing store
\* does not initialize, no persistent store is initialized by more than one
\* invocation, and after that the job runs and its result or error is what
\* the invocation returns.
C7_InitializedOnceIfNew ==
    /\ \A k \in DOMAIN inits : inits[k] <= 1
    /\ s_last.config.kind \in {"Memory", "Rocksdb", "DynamoDb"} =>
           /\ (s_last.init # "skipped") <=> FoundNew
           /\ s_last.is_new <=> FoundNew
           /\ s_last.ran <=> (Opened /\ s_last.init # "failed")
           /\ s_last.ran => s_last.ret = s_last.job
           /\ ~s_last.ran => s_last.ret.tag = "Err"

\* An invocation on an existing RocksDB store, after the one that created and
\* initialized it: no initialization, the job's output is returned.
C7_Witness ==
    /\ s_last.config.kind = "Rocksdb"
    /\ s_last.before = "genesis"
    /\ inits.Rocksdb = 1
    /\ s_last.init = "skipped"
    /\ s_last.ran
    /\ s_last.ret = SOk(1)

-----------------------------------------------------------------------------
(* The configuration strings StorageConfig::from_str accepts *)

\* What is left of a string after its first n characters.
Rest(s, n) == SubSeq(s, n + 1, Len(s))

\* The beginnings of a string, the empty one and the whole included.
Prefixes(s) == {SubSeq(s, 1, j) : j \in 0..Len(s)}

\* The configurations a string could possibly denote: a path is all that
\* follows "rocksdb:", a table name begins right after "dynamodb:".
Denotable(s) ==
    {ConfigMemory, ConfigRocksdb(Rest(s, Len(ROCKSDB)))}
        \cup {ConfigDynamoDb(t, b) : t \in Prefixes(Rest(s, Len(DYNAMO_DB))),
                                     b \in BOOLEAN}

\* The string is written in one of the accepted forms, and denotes config.
IsForm(s, config) ==
    CASE config.kind = "Memory" -> s = MEMORY
      [] config.kind = "Rocksdb" -> s = ROCKSDB \o config.path
      [] config.kind = "DynamoDb" ->
            /\ TableNameFromStr(config.table)
            /\ IF config.use_localstack
               THEN s = DYNAMO_DB \o config.table \o <<":">> \o LOCALSTACK
               ELSE \/ s = DYNAMO_DB \o config.table
                    \/ s = DYNAMO_DB \o config.table \o <<":">> \o ENV

\* C11: from_str accepts exactly the forms "memory", "rocksdb:<path>",
\* "dynamodb:<table>", "dynamodb:<table>:env" (use_localstack = false) and
\* "dynamodb:<table>:localstack" (use_localstack = true), returning the
\* configuration the form denotes; every other input is an error.
C11_AcceptsExactlyTheForms ==
    fs_ret.tag \in {"Ok", "Err"} =>
        /\ \A config \in Denotable(fs_input) :
                IsForm(fs_input, config) => fs_ret = FOk(config)
        /\ fs_ret.tag = "Ok" => IsForm(fs_input, fs_ret.config)

\* "dynamodb:table:localstack" was parsed into the DynamoDb configuration of
\* table "table" at the localstack endpoint.
C11_Witness ==
    /\ fs_input = DYNAMO_DB \o <<"t", "a", "b", "l", "e">> \o <<":">> \o LOCALSTACK
    /\ fs_ret = FOk(ConfigDynamoDb(<<"t", "a", "b", "l", "e">>, TRUE))

-----------------------------------------------------------------------------
(* GuestPointer::after *)

\* C12: whenever a + size fits in 32 bits, after(a) is exactly a + size,
\* whatever T's alignment and whether or not a is aligned for T.
C12_AfterAddsSize ==
    (gp_op = "after" /\ FitsU32(ExactAfter(gp_self, gp_T))) =>
        /\ gp_ret = Val(ExactAfter(gp_self, gp_T))
        /\ \A align \in Alignments :
               GuestPointerAfter(gp_self, [size |-> gp_T.size, align |-> align],
                                 overflow_checks) = gp_ret

\* From the unaligned address 1, a type of size 6 and alignment 4 ends at 7.
C12_Witness ==
    /\ gp_op = "after"
    /\ gp_self = <<0, 1>>
    /\ gp_T = [size |-> 6, align |-> 4]
    /\ gp_ret = Val(<<0, 7>>)

-----------------------------------------------------------------------------
(* Exclusive access of a Memory handle to its instance *)

\* C13: at most one Memory handle of an instance is alive at any time, and
\* while one is alive nobody else uses the instance: every use is by the
\* live handle, so the uses of two handles never interleave (a handle whose
\* use was followed by another party's is dropped, and stays so).
C13_ExclusiveAccess ==
    /\ [](Cardinality(Live(h_status)) <= 1)
    /\ []((h_prev \in Handles /\ h_prev # h_user) => h_status[h_prev] = "dropped")
    /\ [][\A h \in Handles :
               /\ (h_status[h] = "live" /\ h_uses' # h_uses) => h_user' = h
               /\ h_status[h] = "dropped" => h_status'[h] = "dropped"]_vars

\* Handle 2 uses the instance after handle 1 did; handle 1 is gone by then.
C13_Witness ==
    /\ h_user = 2
    /\ h_prev = 1
    /\ h_uses[1] = MaxUses
    /\ h_status[1] = "dropped"
    /\ h_status[2] = "live"

-----------------------------------------------------------------------------
(* Memory::allocate and Memory::deallocate: guest calls, errors, frame *)

\* C14: an allocate(size) that reaches the guest calls cabi_realloc exactly
\* once, through the handle in the realloc-fn slot, with the arguments
\* (0, 0, 1, size), size unchanged in value.  The steps come in the order
\* resolution, size conversion, guest call, result conversion: a failed
\* resolution ends the call before the size is looked at, a size that does
\* not convert ends it before the guest is called, and the result is
\* converted only from what the guest call returned.
C14_ReallocCalledOnce ==
    m_last.op = "allocate" =>
        /\ m_last.calls # <<>> =>
               /\ Len(m_last.calls) = 1
               /\ m_last.calls[1].name = "cabi_realloc"
               /\ m_last.calls[1].handle = cabi_realloc
               /\ cabi_realloc # 0
               /\ m_last.calls[1].args = <<<<0, 0>>, <<0, 0>>, <<0, 1>>, m_last.arg>>
               /\ ~AboveI32Max(m_last.arg)
        /\ ~Resolvable => (m_last.calls = <<>> /\ m_last.ret.err = "FunctionNotFound")
        /\ (Resolvable /\ AboveI32Max(m_last.arg)) =>
               (m_last.calls = <<>> /\ m_last.ret = Err("AllocationTooLarge"))
        /\ (Resolvable /\ ~AboveI32Max(m_last.arg)) => Len(m_last.calls) = 1
        /\ (m_last.ret.tag = "Ok" \/ m_last.ret = Err("AllocationFailed")) => GuestReturned

\* allocate(16) on a fresh handle: one lookup, then cabi_realloc(0, 0, 1, 16).
C14_Witness ==
    /\ m_last.op = "allocate"
    /\ m_last.arg = <<0, 16>>
    /\ m_last.lookups = <<Lookup("cabi_realloc", TRUE)>>
    /\ m_last.calls = <<GuestCall("cabi_realloc", cabi_realloc,
                                  <<<<0, 0>>, <<0, 0>>, <<0, 1>>, <<0, 16>>>>,
                                  Returns(<<0, 16>>))>>
    /\ m_last.ret = OkPtr(<<0, 16>>)

\* C15: allocate and deallocate return the error of a trapped guest call and
\* the error of a failed load_function as they got it, and return Ok only
\* when the resolution, the conversion of the argument, the guest call and
\* (for allocate) the conversion of the result all succeeded.
C15_ErrorsAreReturnedUnchanged ==
    m_last.op \in {"allocate", "deallocate"} =>
        /\ ~Resolvable =>
               /\ m_last.ret = Err(m_last.lookups[1].err)
               /\ m_last.ret.err \notin {"", "AllocationFailed", "AllocationTooLarge",
                                          "DeallocateInvalidAddress"}
        /\ (m_last.calls # <<>> /\ m_last.calls[1].out.trap) =>
               /\ m_last.ret = Err(m_last.calls[1].out.err)
               /\ m_last.ret.err \in TrapErrors
        /\ m_last.ret.tag = "Ok" =>
               /\ Resolvable
               /\ ~AboveI32Max(m_last.arg)
               /\ GuestReturned
               /\ m_last.op = "allocate" =>
                      /\ cabi_realloc # 0
                      /\ ~Negative(m_last.calls[1].out.ret)
                      /\ m_last.ret = OkPtr(m_last.calls[1].out.ret)
               /\ m_last.op = "deallocate" => cabi_free # 0

\* The guest ran out of fuel inside cabi_realloc: allocate returns that error.
C15_Witness ==
    /\ m_last.op = "allocate"
    /\ Len(m_last.calls) = 1
    /\ m_last.calls[1].out = Trap("OutOfFuel")
    /\ m_last.ret = Err("OutOfFuel")

\* The names looked up and called by the last operation.
NamesUsed(last) ==
    {last.lookups[i].name : i \in DOMAIN last.lookups}
        \cup {last.calls[i].name : i \in DOMAIN last.calls}

\* C16: allocate, whatever its result, leaves the free-fn slot as it was and
\* looks up and calls nothing but cabi_realloc; deallocate leaves the
\* realloc-fn slot as it was and looks up and calls nothing but cabi_free;
\* read and write leave both slots as they were and look up and call nothing.
C16_SlotsAreIndependent ==
    [][ /\ m_last'.op = "allocate" =>
               /\ cabi_free' = cabi_free
               /\ loaded'.cabi_free = loaded.cabi_free
               /\ NamesUsed(m_last') \subseteq {"cabi_realloc"}
        /\ m_last'.op = "deallocate" =>
               /\ cabi_realloc' = cabi_realloc
               /\ loaded'.cabi_realloc = loaded.cabi_realloc
               /\ NamesUsed(m_last') \subseteq {"cabi_free"}
        /\ m_last'.op \in {"read", "write"} =>
               /\ cabi_realloc' = cabi_realloc
               /\ cabi_free' = cabi_free
               /\ loaded' = loaded
               /\ NamesUsed(m_last') = {}
      ]_vars

\* A deallocate that resolved and called cabi_free on a handle whose
\* realloc-fn slot is still Unresolved.
C16_Witness ==
    /\ m_last.op = "deallocate"
    /\ m_last.lookups = <<Lookup("cabi_free", TRUE)>>
    /\ Len(m_last.calls) = 1
    /\ cabi_free # 0
    /\ cabi_realloc = 0
    /\ loaded.cabi_realloc = 0

\* What deallocate(p) does, given only p, whether free-fn is or gets
\* resolved, the handle then in the slot, and the guest's response.
ForwardsToGuest(last, slot) ==
    LET resolved == last.lookups = <<>> \/ last.lookups[1].found
    IN  /\ ~resolved => (last.calls = <<>> /\ last.ret = Err(last.lookups[1].err))
        /\ (resolved /\ AboveI32Max(last.arg)) =>
               (last.calls = <<>> /\ last.ret = Err("DeallocateInvalidAddress"))
        /\ (resolved /\ ~AboveI32Max(last.arg)) =>
               /\ Len(last.calls) = 1
               /\ last.calls[1].name = "cabi_free"
               /\ last.calls[1].handle = slot
               /\ last.calls[1].args = <<last.arg>>
               /\ last.ret = IF last.calls[1].out.trap
                             THEN Err(last.calls[1].out.err) ELSE OkUnit

\* C17: the host keeps no allocation bookkeeping.  What deallocate(p)
\* returns and the guest call it makes follow from p, the free-fn slot and
\* the guest's response alone, in every state any history leads to; an
\* address that no allocate returned is forwarded to cabi_free, and a
\* deallocate(p) that follows a successful deallocate(p) calls cabi_free(p)
\* again.
C17_NoAllocationBookkeeping ==
    /\ [](m_last.op = "deallocate" => ForwardsToGuest(m_last, cabi_free))
    /\ [][(/\ m_last.op = "deallocate"
            /\ m_last.ret = OkUnit
            /\ m_last'.op = "deallocate"
            /\ m_last'.arg = m_last.arg) =>
               /\ Len(m_last'.calls) = 1
               /\ m_last'.calls[1].name = "cabi_free"
               /\ m_last'.calls[1].args = <<m_last.arg>>
               /\ m_last'.lookups = <<>>]_vars

\* deallocate(16) on a handle through which nothing was ever allocated
\* (cabi_realloc was never resolved): cabi_free(16) is called all the same.
C17_Witness ==
    /\ m_last.op = "deallocate"
    /\ m_last.arg = <<0, 16>>
    /\ cabi_realloc = 0
    /\ loaded.cabi_realloc = 0
    /\ Len(m_last.calls) = 1
    /\ m_last.calls[1].args = <<<<0, 16>>>>
    /\ m_last.ret = OkUnit

\* C19: a successful allocate returns an address in 0 .. 2^31 - 1, the
\* value cabi_realloc returned; a deallocate of that address on the same
\* handle never fails with DeallocateInvalidAddress: either cabi_free cannot
\* be resolved, or cabi_free is called on exactly that value.
C19_AllocatedAddressCanBeFreed ==
    /\ []((m_last.op = "allocate" /\ m_last.ret.tag = "Ok") =>
              /\ ~AboveI32Max(m_last.ret.ptr)
              /\ GuestReturned
              /\ m_last.ret.ptr = m_last.calls[1].out.ret
              /\ FreeAddress(m_last.ret.ptr).ok)
    /\ [][(/\ m_last.op = "allocate"
            /\ m_last.ret.tag = "Ok"
            /\ m_last'.op = "deallocate"
            /\ m_last'.arg = m_last.ret.ptr) =>
               /\ m_last'.ret # Err("DeallocateInvalidAddress")
               /\ \/ /\ m_last'.calls = <<>>
                     /\ m_last'.lookups = <<Lookup("cabi_free", FALSE)>>
                     /\ m_last'.ret = Err("FunctionNotFound")
                  \/ /\ Len(m_last'.calls) = 1
                     /\ m_last'.calls[1].name = "cabi_free"
                     /\ m_last'.calls[1].args = <<m_last.calls[1].out.ret>>]_vars

\* cabi_realloc returned i32::MAX, the largest address allocate can return,
\* on a handle whose cabi_free is resolved.
C19_Witness ==
    /\ m_last.op = "allocate"
    /\ m_last.ret = OkPtr(I32Max)
    /\ m_last.calls[1].out = Returns(I32Max)
    /\ cabi_free # 0

-----------------------------------------------------------------------------
(* run_with_storage over a persistent store *)

\* The last invocation selected a store that outlives it.
Persistent == s_last.config.kind \in {"Rocksdb", "DynamoDb"}

\* C18: over any sequence of invocations on the same RocksDB path or
\* DynamoDB table, the job runs only against a store whose genesis
\* initialization was completed, by this invocation or an earlier one; an
\* invocation whose initialize_store fails does not run the job and returns
\* the error.
C18_JobRunsOnInitializedStore ==
    Persistent =>
        /\ s_last.ran => s_last.ran_on = "genesis"
        /\ s_last.init = "failed" => (~s_last.ran /\ s_last.ret = SErr("initialize_store"))

\* The job ran against a RocksDB directory that an earlier invocation
\* created without completing initialize_store.
C18_RanUninitialized ==
    /\ s_last.config.kind = "Rocksdb"
    /\ s_last.before = "created"
    /\ s_last.init = "skipped"
    /\ s_last.ran
    /\ s_last.ran_on = "created"
====
